---- MODULE Spec2Model ----
(***************************************************************************)
(* Model of the mobile automation agent: the perceive-decide-act loop of   *)
(* main.py, the summarizer and the executor of action_executor.py, and the *)
(* result contracts of the collaborators (adb_controller.py,               *)
(* omniparser_sim.py, llm_handler.py).                                     *)
(*                                                                         *)
(* Python values are tagged tuples: <<"None">>, <<"int", n>>,              *)
(* <<"float", t>> (t tenths, the value t/10), <<"str", s>>,                *)
(* <<"list", xs>>.  A string s is a sequence of tokens: a token is a TLA+  *)
(* string standing for its characters; texts that the code slices are      *)
(* sequences of one-character tokens, fixed literals and kind names are    *)
(* one token each.  A dict is a record over its key universe whose absent  *)
(* keys hold Absent.  Floats are exact multiples of a tenth: the rounding  *)
(* of binary floating point is not modelled.  On the bboxes, coordinates   *)
(* and screens of this module the code's floating-point expressions have   *)
(* the exact values computed here.                                         *)
(***************************************************************************)
EXTENDS Integers, Sequences, FiniteSets, TLC

VARIABLES
    pc,                             \* position of main() in its loop body
    step,                           \* the loop variable of main.py:55
    action_history,                 \* main.py:51
    last_action_summary,            \* main.py:52
    omni_elements,                  \* main.py:67
    last_annotated_screenshot_path, \* main.py:31
    llm_action,                     \* main.py:81
    llm_reasoning,                  \* main.py:81
    current_action_summary,         \* main.py:94
    should_continue,                \* main.py:102
    screen_dims,                    \* main.py:35
    outcome,                        \* how the loop was left (which break, or the else)
    calls,                          \* device calls issued by the last execute_action
    warned,                         \* the loop-detection warning of main.py:96 was logged in this step
    llm_args,                       \* arguments of the last get_llm_action call
    ncalls,                         \* number of collaborator calls made so far, per collaborator
    all_wait,                       \* every decision so far was the action WAIT2
    shot,                           \* what the last take_screenshot call returned
    results,                        \* what the device answered to each call in calls
    env,                            \* what main() finds when it starts
    vision_result                   \* what the last call_omniparser_v2 call returned

vars == <<pc, step, action_history, last_action_summary, omni_elements,
          last_annotated_screenshot_path, llm_action, llm_reasoning,
          current_action_summary, should_continue, screen_dims, outcome,
          calls, warned, llm_args, ncalls, all_wait, shot, results, env, vision_result>>

-----------------------------------------------------------------------------
(* Configuration                                                           *)

MAX_STEPS == 15
ACTION_HISTORY_LENGTH == 5
\* DEFAULT_WAIT_TIME = 2.0 seconds, in tenths of a second
DEFAULT_WAIT_TIME == 20
\* text[:20] and content[:20] of summarize_action
SUMMARY_SLICE == 20
\* duration_ms of the SCROLL_DOWN / SCROLL_UP swipes
SCROLL_DURATION_MS == 400
\* default of action_data.get("duration", 300)
SWIPE_DEFAULT_DURATION == 300
\* denominator of the modelled floats (tenths)
Den == 10

-----------------------------------------------------------------------------
(* Python values                                                           *)

None == <<"None">>
Absent == <<"absent">>
PyInt(n) == <<"int", n>>
PyFloat(t) == <<"float", t>>
PyStr(s) == <<"str", s>>
PyList(xs) == <<"list", xs>>
PyDict(d) == <<"dict", d>>

IsNone(v) == v[1] = "None"
IsNum(v) == v[1] \in {"int", "float"}
IsStr(v) == v[1] = "str"
IsList(v) == v[1] = "list"
IsDict(v) == v[1] = "dict"

\* the value of a number in tenths
Tenths(v) == IF v[1] = "int" THEN v[2] * Den ELSE v[2]

\* Python truthiness: None, 0, 0.0, "" and [] are false
Truthy(v) ==
    CASE v[1] = "None" -> FALSE
      [] v[1] = "int" -> v[2] # 0
      [] v[1] = "float" -> v[2] # 0
      [] v[1] = "str" -> v[2] # <<>>
      [] v[1] = "list" -> v[2] # <<>>
      [] v[1] = "dict" -> TRUE

\* Python ==: an int and a float compare by value, values of other types by
\* type and content
PyEq(a, b) ==
    IF IsNum(a) /\ IsNum(b) THEN Tenths(a) = Tenths(b)
    ELSE a[1] = b[1] /\ a = b

\* dict.get(key) and dict.get(key, default), on a field already selected
IsAbsent(field) == field[1] = "absent"
Get(field) == IF IsAbsent(field) THEN None ELSE field
GetD(field, default) == IF IsAbsent(field) THEN default ELSE field

Digit(d) == CASE d = 0 -> "0" [] d = 1 -> "1" [] d = 2 -> "2" [] d = 3 -> "3"
              [] d = 4 -> "4" [] d = 5 -> "5" [] d = 6 -> "6" [] d = 7 -> "7"
              [] d = 8 -> "8" [] d = 9 -> "9"

RECURSIVE NatStr(_)
NatStr(n) == IF n < 10 THEN <<Digit(n)>> ELSE NatStr(n \div 10) \o <<Digit(n % 10)>>

IntStr(n) == IF n < 0 THEN <<"-">> \o NatStr(-n) ELSE NatStr(n)

\* str(v) / the f-string conversion {v}
PyToStr(v) ==
    CASE v[1] = "None" -> <<"None">>
      [] v[1] = "int" -> IntStr(v[2])
      [] v[1] = "float" ->
            IF v[2] < 0 THEN <<"-">> \o NatStr((-v[2]) \div Den) \o <<".">> \o NatStr((-v[2]) % Den)
            ELSE NatStr(v[2] \div Den) \o <<".">> \o NatStr(v[2] % Den)
      [] v[1] = "str" -> v[2]
      [] v[1] = "list" -> <<"[list]">>
      [] v[1] = "dict" -> <<"{dict}">>

\* Take keeping one character only
Take_one(s, n) == SubSeq(s, 1, IF Len(s) < 1 THEN Len(s) ELSE 1)

\* s[:n]
Take(s, n) == SubSeq(s, 1, IF Len(s) < n THEN Len(s) ELSE n)

RECURSIVE LStrip(_)
LStrip(s) == IF s # <<>> /\ Head(s) = " " THEN LStrip(Tail(s)) ELSE s

RECURSIVE RStrip(_)
RStrip(s) == IF s # <<>> /\ s[Len(s)] = " " THEN RStrip(SubSeq(s, 1, Len(s) - 1)) ELSE s

\* s.strip()
Strip(s) == RStrip(LStrip(s))

\* int(n / d): truncation toward zero
Trunc(n, d) == IF n >= 0 THEN n \div d ELSE -((-n) \div d)

-----------------------------------------------------------------------------
(* Actions and elements                                                    *)

TAP == PyStr(<<"TAP">>)
INPUT_TEXT == PyStr(<<"INPUT_TEXT">>)
SCROLL_DOWN == PyStr(<<"SCROLL_DOWN">>)
SCROLL_UP == PyStr(<<"SCROLL_UP">>)
SWIPE == PyStr(<<"SWIPE">>)
WAIT == PyStr(<<"WAIT">>)
DONE == PyStr(<<"DONE">>)

\* an action dict over the keys the code reads, and the key "duration_ms",
\* which the code never reads (absent unless a caller sets it)
ActionData(kind, idx, text, sx, sy, ex, ey, dur, secs) ==
    [action |-> kind, element_index |-> idx, text |-> text,
     start_x |-> sx, start_y |-> sy, end_x |-> ex, end_y |-> ey,
     duration |-> dur, duration_seconds |-> secs, duration_ms |-> Absent]

\* an action dict holding only the key "action"
Bare(kind) == ActionData(kind, Absent, Absent, Absent, Absent, Absent, Absent, Absent, Absent)

\* an element dict as parse_omniparser_output_string builds it
Element(index, content, bbox) == [index |-> PyInt(index), content |-> content, bbox |-> bbox]

\* omni_elements or []
ElementsOrEmpty(elements) == IF Truthy(elements) THEN elements[2] ELSE <<>>

\* FindElement with the first element as the default of next()
FindElement_default(elements, idx) ==
    LET es == ElementsOrEmpty(elements)
        hits == {i \in 1..Len(es) : PyEq(es[i].index, idx)}
    IN IF hits = {} THEN (IF es = <<>> THEN 0 ELSE 1)
       ELSE CHOOSE i \in hits : \A j \in hits : i <= j

\* next((e for e in (omni_elements or []) if e.get('index') == idx), None):
\* the position of the first match, 0 for None
FindElement(elements, idx) ==
    LET es == ElementsOrEmpty(elements)
        hits == {i \in 1..Len(es) : PyEq(es[i].index, idx)}
    IN IF hits = {} THEN 0 ELSE CHOOSE i \in hits : \A j \in hits : i <= j

-----------------------------------------------------------------------------
(* summarize_action                                                        *)

\* str(action_data): the keys present, each with the repr of its value
RawDump(action_data) ==
    LET Item(key, field) ==
            IF IsAbsent(field) THEN <<>>
            ELSE <<key>> \o (IF IsStr(field) THEN <<"'">> \o field[2] \o <<"'">> ELSE PyToStr(field))
    IN <<"{">> \o Item("action", action_data.action)
              \o Item("element_index", action_data.element_index)
              \o Item("text", action_data.text)
              \o Item("start_x", action_data.start_x)
              \o Item("start_y", action_data.start_y)
              \o Item("end_x", action_data.end_x)
              \o Item("end_y", action_data.end_y)
              \o Item("duration", action_data.duration)
              \o Item("duration_seconds", action_data.duration_seconds)
              \o Item("duration_ms", action_data.duration_ms)
              \o <<"}">>

\* summarize_action without the except clause of lines 26-28: no summary is returned
summarize_action_nofallback(action_data, elements) ==
  IF PyEq(Get(action_data.action), INPUT_TEXT)
     /\ ~IsStr(GetD(action_data.text, PyStr(<<>>))) /\ ~IsList(GetD(action_data.text, PyStr(<<>>)))
  THEN None
  ELSE PyStr(
    LET action_type == Get(action_data.action)
        summary == <<"Action: ">> \o PyToStr(action_type)
    IN  IF PyEq(action_type, TAP) THEN
            LET idx == Get(action_data.element_index)
                at == FindElement(elements, idx)
                content ==
                    IF at # 0
                    THEN <<"'">> \o Strip(Take(PyToStr(GetD(ElementsOrEmpty(elements)[at].content,
                                                             PyStr(<<"N/A">>))), SUMMARY_SLICE))
                                 \o <<"'">>
                    ELSE <<"'Element not found'">>
            IN summary \o <<" (Index: ">> \o PyToStr(idx) \o <<", Content: ">> \o content \o <<")">>
        ELSE IF PyEq(action_type, INPUT_TEXT) THEN
            LET text == GetD(action_data.text, PyStr(<<>>))
                idx == Get(action_data.element_index)
            IN  IF IsStr(text)
                THEN summary \o <<" (Text: '">> \o Take(text[2], SUMMARY_SLICE) \o <<"...', Index: ">>
                             \o (IF ~IsNone(idx) THEN PyToStr(idx) ELSE <<"N/A">>) \o <<")">>
                ELSE IF IsList(text)
                THEN summary \o <<" (Text: '">> \o <<"[list]">> \o <<"...', Index: ">>
                             \o (IF ~IsNone(idx) THEN PyToStr(idx) ELSE <<"N/A">>) \o <<")">>
                ELSE RawDump(action_data)     \* text[:20] raises TypeError: the fallback
        ELSE IF PyEq(action_type, SWIPE) THEN
            summary \o <<" (From: (">> \o PyToStr(Get(action_data.start_x)) \o <<",">>
                    \o PyToStr(Get(action_data.start_y)) \o <<") To: (">>
                    \o PyToStr(Get(action_data.end_x)) \o <<",">>
                    \o PyToStr(Get(action_data.end_y)) \o <<"))">>
        ELSE IF PyEq(action_type, WAIT) THEN
            summary \o <<" (">> \o PyToStr(Get(action_data.duration_seconds)) \o <<"s)">>
        ELSE summary)

summarize_action(action_data, elements) ==
  PyStr(
    LET action_type == Get(action_data.action)
        summary == <<"Action: ">> \o PyToStr(action_type)
    IN  IF PyEq(action_type, TAP) THEN
            LET idx == Get(action_data.element_index)
                at == FindElement(elements, idx)
                content ==
                    IF at # 0
                    THEN <<"'">> \o Strip(Take(PyToStr(GetD(ElementsOrEmpty(elements)[at].content,
                                                             PyStr(<<"N/A">>))), SUMMARY_SLICE))
                                 \o <<"'">>
                    ELSE <<"'Element not found'">>
            IN summary \o <<" (Index: ">> \o PyToStr(idx) \o <<", Content: ">> \o content \o <<")">>
        ELSE IF PyEq(action_type, INPUT_TEXT) THEN
            LET text == GetD(action_data.text, PyStr(<<>>))
                idx == Get(action_data.element_index)
            IN  IF IsStr(text)
                THEN summary \o <<" (Text: '">> \o Take(text[2], SUMMARY_SLICE) \o <<"...', Index: ">>
                             \o (IF ~IsNone(idx) THEN PyToStr(idx) ELSE <<"N/A">>) \o <<")">>
                ELSE IF IsList(text)
                THEN summary \o <<" (Text: '">> \o <<"[list]">> \o <<"...', Index: ">>
                             \o (IF ~IsNone(idx) THEN PyToStr(idx) ELSE <<"N/A">>) \o <<")">>
                ELSE RawDump(action_data)     \* text[:20] raises TypeError: the fallback
        ELSE IF PyEq(action_type, SWIPE) THEN
            summary \o <<" (From: (">> \o PyToStr(Get(action_data.start_x)) \o <<",">>
                    \o PyToStr(Get(action_data.start_y)) \o <<") To: (">>
                    \o PyToStr(Get(action_data.end_x)) \o <<",">>
                    \o PyToStr(Get(action_data.end_y)) \o <<"))">>
        ELSE IF PyEq(action_type, WAIT) THEN
            summary \o <<" (">> \o PyToStr(Get(action_data.duration_seconds)) \o <<"s)">>
        ELSE summary)

-----------------------------------------------------------------------------
(* execute_action                                                          *)

\* the device: what each primitive does when called
Outcomes == {"ok", "fail", "raise"}
DevBehaviours == [tap : Outcomes, swipe : Outcomes, input_text : Outcomes, wait : {"ok", "raise"}]

Ret(c, cs) == [cont |-> c, calls |-> cs]

\* bbox is a list of four numbers
BBoxOk(bbox) == IsList(bbox) /\ Len(bbox[2]) = 4 /\ \A i \in 1..4 : IsNum(bbox[2][i])

\* TapPoint rounding to the nearest pixel instead of truncating
TapPoint_round(bbox, dims) ==
    <<Trunc(2 * (Tenths(bbox[2][1]) + Tenths(bbox[2][3])) * dims[1] + 2 * Den, 4 * Den),
      Trunc(2 * (Tenths(bbox[2][2]) + Tenths(bbox[2][4])) * dims[2] + 2 * Den, 4 * Den)>>

\* int(((bbox[0] + bbox[2]) / 2) * width), int(((bbox[1] + bbox[3]) / 2) * height)
TapPoint(bbox, dims) ==
    <<Trunc((Tenths(bbox[2][1]) + Tenths(bbox[2][3])) * dims[1], 2 * Den),
      Trunc((Tenths(bbox[2][2]) + Tenths(bbox[2][4])) * dims[2], 2 * Den)>>

\* int(height * 0.8), int(height * 0.2)
Frac(n, tenths) == Trunc(n * tenths, Den)

\* Settle without the test of success at line 166
Settle_always(success, cs, kind) ==
    IF ~PyEq(kind, WAIT) /\ ~PyEq(kind, DONE)
    THEN Ret(TRUE, Append(cs, <<"wait", PyFloat(DEFAULT_WAIT_TIME)>>))
    ELSE Ret(TRUE, cs)

\* lines 165-176: the settle wait after a successful action other than WAIT
Settle(success, cs, kind) ==
    IF success /\ ~PyEq(kind, WAIT) /\ ~PyEq(kind, DONE)
    THEN Ret(TRUE, Append(cs, <<"wait", PyFloat(DEFAULT_WAIT_TIME)>>))
    ELSE Ret(TRUE, cs)

\* AfterPrimitive with the exception handler of line 178 returning False
AfterPrimitive_stop(result, cs, kind) ==
    IF result = "raise" THEN Ret(FALSE, cs) ELSE Settle(result = "ok", cs, kind)

\* a primitive was called with the calls cs made so far: an exception is caught
\* at line 178 and returns True, otherwise its result is success
AfterPrimitive(result, cs, kind) ==
    IF result = "raise" THEN Ret(TRUE, cs) ELSE Settle(result = "ok", cs, kind)

\* ExecTap taking the last element with the index instead of the first
ExecTap_lastmatch(action_data, dev, dims, elements) ==
    LET idx == Get(action_data.element_index)
        es == ElementsOrEmpty(elements)
        hits == {i \in 1..Len(es) : PyEq(es[i].index, idx)}
    IN  IF hits = {} THEN Ret(TRUE, <<>>)
        ELSE LET bbox == Get(es[CHOOSE i \in hits : \A j \in hits : j <= i].bbox)
             IN IF ~BBoxOk(bbox) THEN Ret(TRUE, <<>>)
                ELSE LET p == TapPoint(bbox, dims)
                     IN AfterPrimitive(dev.tap, <<<<"tap", p[1], p[2]>>>>, TAP)

ExecTap(action_data, dev, dims, elements) ==
    LET idx == Get(action_data.element_index)
        at == FindElement(elements, idx)
    IN  IF at = 0 THEN Ret(TRUE, <<>>)
        ELSE LET bbox == Get(ElementsOrEmpty(elements)[at].bbox)
             IN IF ~BBoxOk(bbox) THEN Ret(TRUE, <<>>)
                ELSE LET p == TapPoint(bbox, dims)
                     IN AfterPrimitive(dev.tap, <<<<"tap", p[1], p[2]>>>>, TAP)

\* ExecInputText typing whatever the focus tap returned (lines 102-104 missing)
ExecInputText_ignoretap(action_data, dev, dims, elements) ==
    LET text_to_input == Get(action_data.text)
        idx == Get(action_data.element_index)
        at == FindElement(elements, idx)
        Type(cs) == AfterPrimitive(dev.input_text, Append(cs, <<"input_text", text_to_input>>), INPUT_TEXT)
    IN  IF IsNone(text_to_input) THEN Ret(TRUE, <<>>)
        ELSE IF IsNone(idx) THEN Type(<<>>)
        ELSE IF at = 0 THEN Ret(TRUE, <<>>)
        ELSE LET bbox == Get(ElementsOrEmpty(elements)[at].bbox)
             IN IF ~BBoxOk(bbox) THEN Ret(TRUE, <<>>)
                ELSE LET p == TapPoint(bbox, dims)
                         tapped == <<<<"tap", p[1], p[2]>>>>
                     IN IF dev.tap = "raise" THEN Ret(TRUE, tapped)
                        ELSE Type(Append(tapped, <<"sleep", PyFloat(5)>>))

\* ExecInputText typing without the focus tap of lines 99-110
ExecInputText_notap(action_data, dev, dims, elements) ==
    LET text_to_input == Get(action_data.text)
        idx == Get(action_data.element_index)
        at == FindElement(elements, idx)
        Type(cs) == AfterPrimitive(dev.input_text, Append(cs, <<"input_text", text_to_input>>), INPUT_TEXT)
    IN  IF IsNone(text_to_input) THEN Ret(TRUE, <<>>)
        ELSE IF IsNone(idx) THEN Type(<<>>)
        ELSE IF at = 0 THEN Ret(TRUE, <<>>)
        ELSE LET bbox == Get(ElementsOrEmpty(elements)[at].bbox)
             IN IF ~BBoxOk(bbox) THEN Ret(TRUE, <<>>) ELSE Type(<<>>)

ExecInputText(action_data, dev, dims, elements) ==
    LET text_to_input == Get(action_data.text)
        idx == Get(action_data.element_index)
        at == FindElement(elements, idx)
        Type(cs) == AfterPrimitive(dev.input_text, Append(cs, <<"input_text", text_to_input>>), INPUT_TEXT)
    IN  IF IsNone(text_to_input) THEN Ret(TRUE, <<>>)
        ELSE IF IsNone(idx) THEN Type(<<>>)
        ELSE IF at = 0 THEN Ret(TRUE, <<>>)
        ELSE LET bbox == Get(ElementsOrEmpty(elements)[at].bbox)
             IN IF ~BBoxOk(bbox) THEN Ret(TRUE, <<>>)
                ELSE LET p == TapPoint(bbox, dims)
                         tapped == <<<<"tap", p[1], p[2]>>>>
                     IN IF dev.tap # "ok" THEN Ret(TRUE, tapped)
                        ELSE Type(Append(tapped, <<"sleep", PyFloat(5)>>))

\* ExecScroll with the two ends of the swipe exchanged
ExecScroll_reversed(dev, dims, from, to, kind) ==
    AfterPrimitive(dev.swipe,
                   <<<<"swipe", dims[1] \div 2, Frac(dims[2], to), dims[1] \div 2,
                       Frac(dims[2], from), PyInt(SCROLL_DURATION_MS)>>>>,
                   kind)

ExecScroll(dev, dims, from, to, kind) ==
    AfterPrimitive(dev.swipe,
                   <<<<"swipe", dims[1] \div 2, Frac(dims[2], from), dims[1] \div 2,
                       Frac(dims[2], to), PyInt(SCROLL_DURATION_MS)>>>>,
                   kind)

\* ExecSwipe taking a coordinate that is false (0) for a missing one
ExecSwipe_falsy(action_data, dev, dims) ==
    LET sx_rel == Get(action_data.start_x)
        sy_rel == Get(action_data.start_y)
        ex_rel == Get(action_data.end_x)
        ey_rel == Get(action_data.end_y)
        duration == GetD(action_data.duration, PyInt(SWIPE_DEFAULT_DURATION))
        all == <<sx_rel, sy_rel, ex_rel, ey_rel>>
    IN  IF \E i \in 1..4 : ~Truthy(all[i]) THEN Ret(TRUE, <<>>)
        ELSE IF \E i \in 1..4 : ~IsNum(all[i]) THEN Ret(TRUE, <<>>)
        ELSE AfterPrimitive(dev.swipe,
                            <<<<"swipe", Trunc(Tenths(sx_rel) * dims[1], Den),
                                Trunc(Tenths(sy_rel) * dims[2], Den),
                                Trunc(Tenths(ex_rel) * dims[1], Den),
                                Trunc(Tenths(ey_rel) * dims[2], Den), duration>>>>,
                            SWIPE)

\* ExecSwipe reading the duration from the key "duration_ms"
ExecSwipe_ms(action_data, dev, dims) ==
    LET sx_rel == Get(action_data.start_x)
        sy_rel == Get(action_data.start_y)
        ex_rel == Get(action_data.end_x)
        ey_rel == Get(action_data.end_y)
        duration == GetD(action_data.duration_ms, PyInt(SWIPE_DEFAULT_DURATION))
        all == <<sx_rel, sy_rel, ex_rel, ey_rel>>
    IN  IF \E i \in 1..4 : IsNone(all[i]) THEN Ret(TRUE, <<>>)
        ELSE IF \E i \in 1..4 : ~IsNum(all[i]) THEN Ret(TRUE, <<>>)
        ELSE AfterPrimitive(dev.swipe,
                            <<<<"swipe", Trunc(Tenths(sx_rel) * dims[1], Den),
                                Trunc(Tenths(sy_rel) * dims[2], Den),
                                Trunc(Tenths(ex_rel) * dims[1], Den),
                                Trunc(Tenths(ey_rel) * dims[2], Den), duration>>>>,
                            SWIPE)

ExecSwipe(action_data, dev, dims) ==
    LET sx_rel == Get(action_data.start_x)
        sy_rel == Get(action_data.start_y)
        ex_rel == Get(action_data.end_x)
        ey_rel == Get(action_data.end_y)
        duration == GetD(action_data.duration, PyInt(SWIPE_DEFAULT_DURATION))
        all == <<sx_rel, sy_rel, ex_rel, ey_rel>>
    IN  IF \E i \in 1..4 : IsNone(all[i]) THEN Ret(TRUE, <<>>)
        ELSE IF \E i \in 1..4 : ~IsNum(all[i]) THEN Ret(TRUE, <<>>)   \* int(...) raises
        ELSE AfterPrimitive(dev.swipe,
                            <<<<"swipe", Trunc(Tenths(sx_rel) * dims[1], Den),
                                Trunc(Tenths(sy_rel) * dims[2], Den),
                                Trunc(Tenths(ex_rel) * dims[1], Den),
                                Trunc(Tenths(ey_rel) * dims[2], Den), duration>>>>,
                            SWIPE)

ExecWait(action_data, dev) ==
    LET duration == GetD(action_data.duration_seconds, PyFloat(DEFAULT_WAIT_TIME))
    IN Ret(TRUE, <<<<"wait", duration>>>>)

\* execute_action with the unknown kind of lines 161-163 stopping the loop
execute_action_unknownstops(action_data, dev, dims, elements) ==
    LET action_type == Get(action_data.action)
        element_index == Get(action_data.element_index)
    IN  IF ~Truthy(action_type) THEN Ret(FALSE, <<>>)
        ELSE IF (PyEq(action_type, TAP) \/ PyEq(action_type, INPUT_TEXT))
                /\ ~IsNone(element_index) /\ FindElement(elements, element_index) = 0
        THEN Ret(TRUE, <<>>)
        ELSE IF PyEq(action_type, TAP) THEN ExecTap(action_data, dev, dims, elements)
        ELSE IF PyEq(action_type, INPUT_TEXT) THEN ExecInputText(action_data, dev, dims, elements)
        ELSE IF PyEq(action_type, SCROLL_DOWN) THEN ExecScroll(dev, dims, 8, 2, SCROLL_DOWN)
        ELSE IF PyEq(action_type, SCROLL_UP) THEN ExecScroll(dev, dims, 2, 8, SCROLL_UP)
        ELSE IF PyEq(action_type, SWIPE) THEN ExecSwipe(action_data, dev, dims)
        ELSE IF PyEq(action_type, WAIT) THEN ExecWait(action_data, dev)
        ELSE IF PyEq(action_type, DONE) THEN Ret(FALSE, <<>>)
        ELSE Ret(FALSE, <<>>)

execute_action(action_data, dev, dims, elements) ==
    LET action_type == Get(action_data.action)
        element_index == Get(action_data.element_index)
    IN  IF ~Truthy(action_type) THEN Ret(FALSE, <<>>)
        ELSE IF (PyEq(action_type, TAP) \/ PyEq(action_type, INPUT_TEXT))
                /\ ~IsNone(element_index) /\ FindElement(elements, element_index) = 0
        THEN Ret(TRUE, <<>>)
        ELSE IF PyEq(action_type, TAP) THEN ExecTap(action_data, dev, dims, elements)
        ELSE IF PyEq(action_type, INPUT_TEXT) THEN ExecInputText(action_data, dev, dims, elements)
        ELSE IF PyEq(action_type, SCROLL_DOWN) THEN ExecScroll(dev, dims, 8, 2, SCROLL_DOWN)
        ELSE IF PyEq(action_type, SCROLL_UP) THEN ExecScroll(dev, dims, 2, 8, SCROLL_UP)
        ELSE IF PyEq(action_type, SWIPE) THEN ExecSwipe(action_data, dev, dims)
        ELSE IF PyEq(action_type, WAIT) THEN ExecWait(action_data, dev)
        ELSE IF PyEq(action_type, DONE) THEN Ret(FALSE, <<>>)
        ELSE Ret(TRUE, <<>>)

-----------------------------------------------------------------------------
(* Collaborators: what their callers can get back                          *)

\* adb.get_screen_dimensions(): (width, height)
ScreenDims == {<<1000, 2000>>}

Submit == PyStr(<<"S", "u", "b", "m", "i", "t">>)
FullScreen == PyList(<<PyInt(0), PyInt(0), PyInt(1), PyInt(1)>>)
AnnotatedPath == PyStr(<<"annotated.png">>)

\* call_omniparser_v2: (parsed_elements, annotated_image_path)
VisionResults ==
    {<<None, None>>,
     <<PyList(<<>>), AnnotatedPath>>,
     <<PyList(<<Element(1, Submit, FullScreen)>>), AnnotatedPath>>}

WAIT2 == [Bare(WAIT) EXCEPT !.duration_seconds = PyInt(2)]
TAP1 == [Bare(TAP) EXCEPT !.element_index = PyInt(1)]

Reasoning == PyStr(<<"because">>)
NoReasoning == PyStr(<<"[No reasoning provided]">>)

\* what generate_content gives get_llm_action: a transport error or text that
\* is no JSON ("error"), or a JSON object with its "action" and "reasoning"
LlmResponses ==
    {[kind |-> "error", action |-> Absent, reasoning |-> Absent]}
    \cup {[kind |-> "json", action |-> a, reasoning |-> Reasoning] :
            a \in {PyDict(WAIT2), PyDict(TAP1), PyDict(Bare(DONE)), PyDict(Bare(Absent)),
                   PyStr(<<"TAP">>), Absent}}

\* get_llm_action without the check that the action object holds a kind
get_llm_action_unchecked(response) ==
    IF response.kind = "error" THEN <<None, None>>
    ELSE LET action_json == Get(response.action)
             reasoning_str == GetD(response.reasoning, NoReasoning)
         IN IF ~IsDict(action_json)
            THEN <<None, None>>
            ELSE <<action_json, reasoning_str>>

\* get_llm_action, lines 165-185, on the response it received
get_llm_action(response) ==
    IF response.kind = "error" THEN <<None, None>>
    ELSE LET action_json == Get(response.action)
             reasoning_str == GetD(response.reasoning, NoReasoning)
         IN IF ~IsDict(action_json) \/ ~Truthy(Get(action_json[2].action))
            THEN <<None, None>>
            ELSE <<action_json, reasoning_str>>

-----------------------------------------------------------------------------
(* main: the automation loop                                               *)

\* what main() finds when it starts: the API key of config.py:7, whether the
\* ADBController constructor raises, what get_screen_dimensions returns (None
\* when the size query failed) and the task the user types
Task == PyStr(<<"t">>)

Envs ==
    [api_key : BOOLEAN, adb : {"ok", "raise"},
     dims : {None, <<1000, 2000>>, <<1080, 1920>>, <<719, 1283>>, <<1, 1>>},
     task : {PyStr(<<>>), Task}]

\* main.py:23-47 lets the loop start
Usable(e) == e.api_key /\ e.adb = "ok" /\ e.dims # None /\ Truthy(e.task)

NoLlmArgs == [elements |-> None, annotated |-> None, response |-> None, history |-> <<>>]

NoCalls == [screenshot |-> 0, vision |-> 0, llm |-> 0, summarize |-> 0, execute |-> 0, append |-> 0]

\* main.py:50-55, the state on entering the loop
Init ==
    /\ pc = "screenshot"
    /\ step = 0
    /\ action_history = <<>>
    /\ last_action_summary = None
    /\ omni_elements = None
    /\ last_annotated_screenshot_path = None
    /\ llm_action = None
    /\ llm_reasoning = None
    /\ current_action_summary = None
    /\ should_continue = TRUE
    /\ screen_dims \in ScreenDims
    /\ outcome = "running"
    /\ calls = <<>>
    /\ warned = FALSE
    /\ llm_args = NoLlmArgs
    /\ ncalls = NoCalls
    /\ all_wait = TRUE
    /\ shot = TRUE
    /\ results = <<>>
    /\ vision_result = <<None, None>>
    /\ env \in {e \in Envs : Usable(e) /\ e.dims = screen_dims}

current_step == step + 1

\* TakeScreenshot with the break of line 63 missing
TakeScreenshot_nobreak ==
    /\ pc = "screenshot"
    /\ \E ok \in BOOLEAN : shot' = ok
    /\ pc' = "vision"
    /\ ncalls' = [ncalls EXCEPT !.screenshot = @ + 1]
    /\ warned' = FALSE
    /\ UNCHANGED <<vision_result, results, env, step, action_history, last_action_summary, omni_elements,
                   last_annotated_screenshot_path, llm_action, llm_reasoning,
                   current_action_summary, should_continue, screen_dims, calls,
                   llm_args, all_wait, outcome>>

\* main.py:59-63
TakeScreenshot ==
    /\ pc = "screenshot"
    /\ \E ok \in BOOLEAN :
          /\ shot' = ok
          /\ IF ok THEN pc' = "vision" /\ outcome' = outcome
             ELSE pc' = "finished" /\ outcome' = "screenshot_failed"
    /\ ncalls' = [ncalls EXCEPT !.screenshot = @ + 1]
    /\ warned' = FALSE
    /\ UNCHANGED <<vision_result, results, env, step, action_history, last_action_summary, omni_elements,
                   last_annotated_screenshot_path, llm_action, llm_reasoning,
                   current_action_summary, should_continue, screen_dims, calls,
                   llm_args, all_wait>>

\* AnalyzeScreenshot with a break when the analysis gave None
AnalyzeScreenshot_break ==
    /\ pc = "vision"
    /\ \E r \in VisionResults :
          /\ omni_elements' = r[1]
          /\ vision_result' = r
          /\ last_annotated_screenshot_path' = IF Truthy(r[2]) THEN r[2] ELSE None
          /\ IF IsNone(r[1]) THEN pc' = "finished" /\ outcome' = "vision_failed"
             ELSE pc' = "llm" /\ outcome' = outcome
    /\ ncalls' = [ncalls EXCEPT !.vision = @ + 1]
    /\ UNCHANGED <<results, env, step, action_history, last_action_summary, llm_action, llm_reasoning,
                   current_action_summary, should_continue, screen_dims, calls,
                   warned, llm_args, all_wait, shot>>

\* AnalyzeScreenshot keeping the elements and the path of the step before
\* when the analysis gives none
AnalyzeScreenshot_keep ==
    /\ pc = "vision"
    /\ \E r \in VisionResults :
          /\ omni_elements' = IF IsNone(r[1]) THEN omni_elements ELSE r[1]
          /\ vision_result' = r
          /\ last_annotated_screenshot_path' = IF Truthy(r[2]) THEN r[2] ELSE last_annotated_screenshot_path
    /\ ncalls' = [ncalls EXCEPT !.vision = @ + 1]
    /\ pc' = "llm"
    /\ UNCHANGED <<results, env, step, action_history, last_action_summary, llm_action, llm_reasoning,
                   current_action_summary, should_continue, screen_dims, outcome, calls,
                   warned, llm_args, all_wait, shot>>

\* main.py:65-76
AnalyzeScreenshot ==
    /\ pc = "vision"
    /\ \E r \in VisionResults :
          /\ omni_elements' = r[1]
          /\ vision_result' = r
          /\ last_annotated_screenshot_path' = IF Truthy(r[2]) THEN r[2] ELSE None
    /\ ncalls' = [ncalls EXCEPT !.vision = @ + 1]
    /\ pc' = "llm"
    /\ UNCHANGED <<results, env, step, action_history, last_action_summary, llm_action, llm_reasoning,
                   current_action_summary, should_continue, screen_dims, outcome, calls,
                   warned, llm_args, all_wait, shot>>

\* relevant_history with the newest entry first
relevant_history_reversed(history) ==
    LET n == IF Len(history) <= ACTION_HISTORY_LENGTH THEN Len(history) ELSE ACTION_HISTORY_LENGTH
    IN [i \in 1..n |-> history[Len(history) - i + 1]]

\* llm_handler.py:34-40, the entries format_prompt describes, oldest to newest
relevant_history(history) ==
    IF Len(history) <= ACTION_HISTORY_LENGTH THEN history
    ELSE SubSeq(history, Len(history) - ACTION_HISTORY_LENGTH + 1, Len(history))

\* GetLlmActionFrom going on to the execution without the summary of lines 93-98
GetLlmActionFrom_nosummary(responses) ==
    /\ pc = "llm"
    /\ \E response \in responses :
          LET r == get_llm_action(response)
          IN /\ llm_action' = r[1]
             /\ llm_reasoning' = r[2]
             /\ all_wait' = (all_wait /\ IsDict(r[1]) /\ r[1][2] = WAIT2)
             /\ IF IsNone(r[1])
                THEN pc' = "finished" /\ outcome' = "llm_failed"
                ELSE pc' = "execute" /\ outcome' = outcome
             /\ llm_args' = [elements |-> omni_elements,
                             annotated |-> last_annotated_screenshot_path,
                             response |-> PyDict(response),
                             history |-> relevant_history(action_history)]
    /\ ncalls' = [ncalls EXCEPT !.llm = @ + 1]
    /\ UNCHANGED <<vision_result, results, env, step, action_history, last_action_summary, omni_elements,
                   last_annotated_screenshot_path, current_action_summary, should_continue,
                   screen_dims, calls, warned, shot>>

\* main.py:79-91, with a decision collaborator that answers from responses
GetLlmActionFrom(responses) ==
    /\ pc = "llm"
    /\ \E response \in responses :
          LET r == get_llm_action(response)
          IN /\ llm_action' = r[1]
             /\ llm_reasoning' = r[2]
             /\ all_wait' = (all_wait /\ IsDict(r[1]) /\ r[1][2] = WAIT2)
             /\ IF IsNone(r[1])
                THEN pc' = "finished" /\ outcome' = "llm_failed"
                ELSE pc' = "loopcheck" /\ outcome' = outcome
             /\ llm_args' = [elements |-> omni_elements,
                             annotated |-> last_annotated_screenshot_path,
                             response |-> PyDict(response),
                             history |-> relevant_history(action_history)]
    /\ ncalls' = [ncalls EXCEPT !.llm = @ + 1]
    /\ UNCHANGED <<vision_result, results, env, step, action_history, last_action_summary, omni_elements,
                   last_annotated_screenshot_path, current_action_summary, should_continue,
                   screen_dims, calls, warned, shot>>

\* LoopDetection without the update of last_action_summary (line 98)
LoopDetection_stale ==
    /\ pc = "loopcheck"
    /\ current_action_summary' = summarize_action(llm_action[2], omni_elements)
    /\ warned' = PyEq(current_action_summary', last_action_summary)
    /\ ncalls' = [ncalls EXCEPT !.summarize = @ + 1]
    /\ pc' = "execute"
    /\ UNCHANGED <<vision_result, results, env, step, action_history, omni_elements, last_annotated_screenshot_path,
                   llm_action, llm_reasoning, should_continue, screen_dims, outcome, calls,
                   llm_args, all_wait, shot, last_action_summary>>

\* LoopDetection leaving the loop when it detects a repetition
LoopDetection_break ==
    /\ pc = "loopcheck"
    /\ current_action_summary' = summarize_action(llm_action[2], omni_elements)
    /\ warned' = PyEq(current_action_summary', last_action_summary)
    /\ last_action_summary' = current_action_summary'
    /\ ncalls' = [ncalls EXCEPT !.summarize = @ + 1]
    /\ IF warned' THEN pc' = "finished" /\ outcome' = "stopped"
       ELSE pc' = "execute" /\ outcome' = outcome
    /\ UNCHANGED <<vision_result, results, env, step, action_history, omni_elements, last_annotated_screenshot_path,
                   llm_action, llm_reasoning, should_continue, screen_dims, calls,
                   llm_args, all_wait, shot>>

GetLlmAction == GetLlmActionFrom(LlmResponses)

\* main.py:93-98
LoopDetection ==
    /\ pc = "loopcheck"
    /\ current_action_summary' = summarize_action(llm_action[2], omni_elements)
    /\ warned' = PyEq(current_action_summary', last_action_summary)
    /\ last_action_summary' = current_action_summary'
    /\ ncalls' = [ncalls EXCEPT !.summarize = @ + 1]
    /\ pc' = "execute"
    /\ UNCHANGED <<vision_result, results, env, step, action_history, omni_elements, last_annotated_screenshot_path,
                   llm_action, llm_reasoning, should_continue, screen_dims, outcome, calls,
                   llm_args, all_wait, shot>>

\* what the device answered to each call of the log cs: time.sleep returns,
\* every other call is answered as the device behaves for that primitive
ResultsOf(dev, cs) ==
    [i \in 1..Len(cs) |-> IF cs[i][1] = "sleep" THEN "ok" ELSE dev[cs[i][1]]]

Observed(dev, r) == [cont |-> r.cont, calls |-> r.calls, results |-> ResultsOf(dev, r.calls)]

\* main.py:100-102
Execute ==
    /\ pc = "execute"
    /\ \E r \in {Observed(dev, execute_action(llm_action[2], dev, screen_dims, omni_elements)) :
                    dev \in DevBehaviours} :
          /\ should_continue' = r.cont
          /\ calls' = r.calls
          /\ results' = r.results
    /\ ncalls' = [ncalls EXCEPT !.execute = @ + 1]
    /\ pc' = "append"
    /\ UNCHANGED <<vision_result, env, step, action_history, last_action_summary, omni_elements,
                   last_annotated_screenshot_path, llm_action, llm_reasoning,
                   current_action_summary, screen_dims, outcome, warned, llm_args, all_wait, shot>>

\* LastN keeping the oldest entries instead of the newest
LastN_oldest(h, n) == IF Len(h) <= n THEN h ELSE SubSeq(h, 1, n)

\* LastN without the slice
LastN_all(h, n) == h

\* action_history[-ACTION_HISTORY_LENGTH:]
LastN(h, n) == IF Len(h) <= n THEN h ELSE SubSeq(h, Len(h) - n + 1, Len(h))

\* UpdateHistory with the break on a stop signal taken before the append
UpdateHistory_breakfirst ==
    /\ pc = "append"
    /\ LET history_entry == [step |-> current_step, summary |-> current_action_summary,
                             reasoning |-> llm_reasoning, action_data |-> llm_action]
       IN action_history' =
             IF ~should_continue THEN action_history
             ELSE LastN(Append(action_history, history_entry), ACTION_HISTORY_LENGTH)
    /\ ncalls' = [ncalls EXCEPT !.append = IF should_continue THEN @ + 1 ELSE @]
    /\ IF ~should_continue
       THEN pc' = "finished" /\ outcome' = "stopped" /\ step' = step
       ELSE IF step + 1 < MAX_STEPS
       THEN pc' = "screenshot" /\ outcome' = outcome /\ step' = step + 1
       ELSE pc' = "finished" /\ outcome' = "max_steps" /\ step' = step
    /\ UNCHANGED <<vision_result, results, env, last_action_summary, omni_elements, last_annotated_screenshot_path,
                   llm_action, llm_reasoning, current_action_summary, should_continue,
                   screen_dims, calls, warned, llm_args, all_wait, shot>>

\* UpdateHistory with the exhaustion of the range tested before the stop signal
UpdateHistory_maxfirst ==
    /\ pc = "append"
    /\ LET history_entry == [step |-> current_step, summary |-> current_action_summary,
                             reasoning |-> llm_reasoning, action_data |-> llm_action]
       IN action_history' = LastN(Append(action_history, history_entry), ACTION_HISTORY_LENGTH)
    /\ ncalls' = [ncalls EXCEPT !.append = @ + 1]
    /\ IF step + 1 >= MAX_STEPS
       THEN pc' = "finished" /\ outcome' = "max_steps" /\ step' = step
       ELSE IF ~should_continue
       THEN pc' = "finished" /\ outcome' = "stopped" /\ step' = step
       ELSE pc' = "screenshot" /\ outcome' = outcome /\ step' = step + 1
    /\ UNCHANGED <<vision_result, results, env, last_action_summary, omni_elements, last_annotated_screenshot_path,
                   llm_action, llm_reasoning, current_action_summary, should_continue,
                   screen_dims, calls, warned, llm_args, all_wait, shot>>

\* main.py:104-123: the history update, then the break on a stop signal, the next
\* iteration, or the else branch of the for loop
UpdateHistory ==
    /\ pc = "append"
    /\ LET history_entry == [step |-> current_step, summary |-> current_action_summary,
                             reasoning |-> llm_reasoning, action_data |-> llm_action]
       IN action_history' = LastN(Append(action_history, history_entry), ACTION_HISTORY_LENGTH)
    /\ ncalls' = [ncalls EXCEPT !.append = @ + 1]
    /\ IF ~should_continue
       THEN pc' = "finished" /\ outcome' = "stopped" /\ step' = step
       ELSE IF step + 1 < MAX_STEPS
       THEN pc' = "screenshot" /\ outcome' = outcome /\ step' = step + 1
       ELSE pc' = "finished" /\ outcome' = "max_steps" /\ step' = step
    /\ UNCHANGED <<vision_result, results, env, last_action_summary, omni_elements, last_annotated_screenshot_path,
                   llm_action, llm_reasoning, current_action_summary, should_continue,
                   screen_dims, calls, warned, llm_args, all_wait, shot>>

Next ==
    \/ TakeScreenshot
    \/ AnalyzeScreenshot
    \/ GetLlmAction
    \/ LoopDetection
    \/ Execute
    \/ UpdateHistory

Spec == Init /\ [][Next]_vars

-----------------------------------------------------------------------------
(* One step of the loop from the decision on (main.py:93-117), on actions,  *)
(* elements and screens drawn from bounded sets.  The actions include ones  *)
(* without a kind, which summarize_action and execute_action accept but     *)
(* which main never passes to them (get_llm_action rejects them).           *)

MaxIndex == 2

ExecScreenDims == {<<1000, 2000>>, <<1080, 1920>>, <<719, 1283>>, <<1, 1>>}

Cancel == PyStr(<<"C", "a", "n", "c", "e", "l">>)
Box == PyList(<<PyFloat(1), PyFloat(2), PyFloat(5), PyFloat(6)>>)
ShortBox == PyList(<<PyFloat(1), PyFloat(2), PyFloat(5)>>)
\* an element of no extent on the right edge of the screen
EdgeBox == PyList(<<PyInt(1), PyFloat(5), PyInt(1), PyFloat(5)>>)

\* element lists as parse_omniparser_output_string returns them: sorted by index
ExecElements ==
    {None,
     PyList(<<>>),
     PyList(<<Element(1, Submit, FullScreen)>>),
     PyList(<<Element(1, Submit, Box), Element(2, Absent, Absent)>>),
     PyList(<<Element(1, Submit, Box), Element(1, Cancel, FullScreen)>>),
     PyList(<<Element(0, Submit, ShortBox), Element(2, None, Box)>>),
     PyList(<<Element(2, PyInt(5), Box)>>),
     PyList(<<Element(2, Cancel, EdgeBox)>>)}

ExecKinds == {TAP, INPUT_TEXT, SCROLL_DOWN, SCROLL_UP, SWIPE, WAIT, DONE,
              PyStr(<<"LONG_PRESS">>), PyStr(<<>>), None, Absent}

ExecIndices == {Absent, None} \cup {PyInt(i) : i \in 0..MaxIndex}

ExecTexts == {Absent, None, PyStr(<<"h", "i">>), PyInt(7)}

ExecCoords ==
    {<<PyFloat(1), PyFloat(2), PyFloat(9), PyFloat(8)>>,
     <<PyInt(0), PyFloat(5), PyInt(1), PyFloat(5)>>,
     <<PyFloat(1), Absent, PyFloat(9), PyFloat(8)>>,
     <<Absent, Absent, Absent, Absent>>}

\* every kind with every index and text; WAIT with a duration; SWIPE with its
\* coordinates and durations; every kind with all keys at once
ExecActions ==
    {ActionData(k, i, t, Absent, Absent, Absent, Absent, Absent, Absent) :
        k \in ExecKinds, i \in ExecIndices, t \in ExecTexts}
    \cup
    {[Bare(WAIT) EXCEPT !.duration_seconds = w] : w \in {PyInt(2), PyFloat(5)}}
    \cup
    {[ActionData(SWIPE, Absent, Absent, c[1], c[2], c[3], c[4], d, Absent)
         EXCEPT !.duration_ms = m] :
        c \in ExecCoords, d \in {Absent, PyInt(1000)}, m \in {Absent, PyInt(250)}}
    \cup
    {[ActionData(k, PyInt(1), PyStr(<<"h", "i">>), PyFloat(1), PyFloat(2), PyFloat(9),
                 PyFloat(8), PyInt(1000), PyInt(2)) EXCEPT !.duration_ms = PyInt(250)] :
        k \in ExecKinds}

ExecInit ==
    /\ pc = "loopcheck"
    /\ step = 0
    /\ action_history = <<>>
    /\ last_action_summary = None
    /\ omni_elements \in ExecElements
    /\ last_annotated_screenshot_path = None
    /\ llm_action \in {PyDict(a) : a \in ExecActions}
    /\ llm_reasoning = Reasoning
    /\ current_action_summary = None
    /\ should_continue = TRUE
    /\ screen_dims \in ExecScreenDims
    /\ outcome = "running"
    /\ calls = <<>>
    /\ warned = FALSE
    /\ llm_args = NoLlmArgs
    /\ ncalls = NoCalls
    /\ all_wait = FALSE
    /\ shot = TRUE
    /\ results = <<>>
    /\ vision_result = <<omni_elements, None>>
    /\ env \in {e \in Envs : Usable(e) /\ e.dims = screen_dims}

ExecNext ==
    \/ LoopDetection
    \/ Execute
    \/ UpdateHistory

ExecSpec == ExecInit /\ [][ExecNext]_vars

\* The loop with a decision collaborator that answers WAIT, DONE or nothing
\* usable, and in which every blocking call returns: a stage that can run does run.
QuietResponses ==
    {r \in LlmResponses : IsDict(r.action) => r.action[2].action \in {WAIT, DONE, Absent}}

FairNext ==
    \/ TakeScreenshot
    \/ AnalyzeScreenshot
    \/ GetLlmActionFrom(QuietResponses)
    \/ LoopDetection
    \/ Execute
    \/ UpdateHistory

FairSpec == Init /\ [][FairNext]_vars /\ WF_vars(FairNext)

-----------------------------------------------------------------------------
(* The second step of the loop from its decision on (main.py:93-117), after *)
(* a first step that decided, summarized and recorded another action        *)

\* a text one character longer than the summary keeps, ending in last
LongText(last) == PyStr([i \in 1..(SUMMARY_SLICE + 1) |-> IF i <= SUMMARY_SLICE THEN "a" ELSE last])

PairTexts == {PyStr(<<"h", "i">>), PyStr(<<"h", "o">>), LongText("b"), LongText("c")}

PairActions ==
    {[Bare(TAP) EXCEPT !.element_index = i] : i \in {Absent, PyInt(1), PyInt(2)}}
    \cup
    {[Bare(INPUT_TEXT) EXCEPT !.element_index = i, !.text = t] :
        i \in {Absent, PyInt(1)}, t \in PairTexts}
    \cup
    {ActionData(SWIPE, Absent, Absent, c[1], c[2], c[3], c[4], Absent, Absent) :
        c \in {c \in ExecCoords : \A k \in 1..4 : IsNum(c[k])}}
    \cup
    {[Bare(WAIT) EXCEPT !.duration_seconds = w] : w \in {Absent, PyInt(2), PyFloat(5)}}

\* the entry main.py:105-111 appends for a first step that decided action a
FirstEntry(a, elements) ==
    [step |-> 1, summary |-> summarize_action(a, elements),
     reasoning |-> Reasoning, action_data |-> PyDict(a)]

PairInit ==
    /\ pc = "loopcheck"
    /\ step = 1
    /\ omni_elements \in ExecElements
    /\ \E a \in PairActions :
          /\ action_history = <<FirstEntry(a, omni_elements)>>
          /\ last_action_summary = summarize_action(a, omni_elements)
    /\ last_annotated_screenshot_path = None
    /\ llm_action \in {PyDict(a) : a \in PairActions}
    /\ llm_reasoning = Reasoning
    /\ current_action_summary = last_action_summary
    /\ should_continue = TRUE
    /\ screen_dims \in ScreenDims
    /\ outcome = "running"
    /\ calls = <<>>
    /\ warned = FALSE
    /\ llm_args = [elements |-> omni_elements, annotated |-> None,
                   response |-> PyDict([kind |-> "json", action |-> llm_action,
                                        reasoning |-> Reasoning]),
                   history |-> action_history]
    /\ ncalls = [screenshot |-> 2, vision |-> 2, llm |-> 2, summarize |-> 1,
                 execute |-> 1, append |-> 1]
    /\ all_wait = FALSE
    /\ shot = TRUE
    /\ results = <<>>
    /\ vision_result = <<omni_elements, None>>
    /\ env \in {e \in Envs : Usable(e) /\ e.dims = screen_dims}

PairNext ==
    \/ LoopDetection
    \/ Execute
    \/ UpdateHistory

PairSpec == PairInit /\ [][PairNext]_vars

-----------------------------------------------------------------------------
(* main from its first line: the setup of main.py:23-47, then the loop      *)

SetupInit ==
    /\ pc = "setup"
    /\ step = 0
    /\ action_history = <<>>
    /\ last_action_summary = None
    /\ omni_elements = None
    /\ last_annotated_screenshot_path = None
    /\ llm_action = None
    /\ llm_reasoning = None
    /\ current_action_summary = None
    /\ should_continue = TRUE
    /\ screen_dims = None
    /\ outcome = "running"
    /\ calls = <<>>
    /\ warned = FALSE
    /\ llm_args = NoLlmArgs
    /\ ncalls = NoCalls
    /\ all_wait = TRUE
    /\ shot = TRUE
    /\ results = <<>>
    /\ vision_result = <<None, None>>
    /\ env \in Envs

\* Setup without the check of line 36
Setup_nodimscheck ==
    /\ pc = "setup"
    /\ IF ~env.api_key
          THEN pc' = "finished" /\ outcome' = "no_api_key" /\ UNCHANGED screen_dims
       ELSE IF env.adb = "raise"
          THEN pc' = "finished" /\ outcome' = "adb_failed" /\ UNCHANGED screen_dims
       ELSE IF ~Truthy(env.task)
          THEN pc' = "finished" /\ outcome' = "no_task" /\ screen_dims' = env.dims
       ELSE pc' = "screenshot" /\ screen_dims' = env.dims /\ UNCHANGED outcome
    /\ UNCHANGED <<vision_result, step, action_history, last_action_summary, omni_elements,
                   last_annotated_screenshot_path, llm_action, llm_reasoning,
                   current_action_summary, should_continue, calls, warned, llm_args,
                   ncalls, all_wait, shot, results, env>>

\* main.py:23-47
Setup ==
    /\ pc = "setup"
    /\ IF ~env.api_key
          THEN pc' = "finished" /\ outcome' = "no_api_key" /\ UNCHANGED screen_dims
       ELSE IF env.adb = "raise"
          THEN pc' = "finished" /\ outcome' = "adb_failed" /\ UNCHANGED screen_dims
       ELSE IF env.dims = None
          THEN pc' = "finished" /\ outcome' = "no_dims" /\ screen_dims' = env.dims
       ELSE IF ~Truthy(env.task)
          THEN pc' = "finished" /\ outcome' = "no_task" /\ screen_dims' = env.dims
       ELSE pc' = "screenshot" /\ screen_dims' = env.dims /\ UNCHANGED outcome
    /\ UNCHANGED <<vision_result, step, action_history, last_action_summary, omni_elements,
                   last_annotated_screenshot_path, llm_action, llm_reasoning,
                   current_action_summary, should_continue, calls, warned, llm_args,
                   ncalls, all_wait, shot, results, env>>

SetupNext == Setup \/ FairNext

SetupSpec == SetupInit /\ [][SetupNext]_vars

-----------------------------------------------------------------------------
(* Properties                                                              *)

Min(a, b) == IF a < b THEN a ELSE b

\* execute_action has returned for the action in llm_action
Returned == pc = "append" /\ ncalls.execute = 1 /\ ncalls.append = 0

DeviceCall(c) == c[1] \in {"tap", "swipe", "input_text", "wait"}

\* C1: execute_action returns continue=false only when the action kind is DONE
\* or is missing or empty; for every other action, element list and device
\* behaviour (failing and raising primitives included) it returns continue=true.
C1_StopOnlyOnDoneOrMissingKind ==
    Returned =>
        LET kind == Get(llm_action[2].action)
        IN ~should_continue => (IsNone(kind) \/ kind = PyStr(<<>>) \/ kind = DONE)

\* an action other than DONE, with a kind, whose device primitive was called
\* and did not succeed (no settle wait follows the tap), came back with continue=true
C1_Witness ==
    /\ Returned
    /\ llm_action[2].action = TAP
    /\ Len(calls) = 1
    /\ calls[1][1] = "tap"
    /\ should_continue

\* C2: for a TAP or INPUT_TEXT whose element_index equals the index of no
\* element of the list (an empty or absent list included), execute_action
\* returns continue=true and issues no device call.
C2_AbsentIndexTouchesNothing ==
    Returned =>
        LET a == llm_action[2]
            idx == Get(a.element_index)
            es == IF IsList(omni_elements) THEN omni_elements[2] ELSE <<>>
        IN (/\ a.action \in {TAP, INPUT_TEXT}
            /\ ~IsNone(idx)
            /\ \A i \in 1..Len(es) : es[i].index # idx)
           => (should_continue /\ \A i \in 1..Len(calls) : ~DeviceCall(calls[i]))

\* an INPUT_TEXT with a text and an index that the non-empty list does not hold
C2_Witness ==
    /\ Returned
    /\ llm_action[2].action = INPUT_TEXT
    /\ IsStr(llm_action[2].text)
    /\ llm_action[2].element_index = PyInt(2)
    /\ omni_elements = PyList(<<Element(1, Submit, FullScreen)>>)
    /\ should_continue
    /\ calls = <<>>

\* C3: the history never holds more than ACTION_HISTORY_LENGTH entries; its
\* entries are in oldest-to-newest order; and once more than
\* ACTION_HISTORY_LENGTH entries were appended the oldest ones are gone.
C3_HistoryBounded ==
    /\ Len(action_history) <= ACTION_HISTORY_LENGTH
    /\ \A i \in 1..Len(action_history) : \A j \in 1..Len(action_history) :
          i < j => action_history[i].step < action_history[j].step
    /\ \A i \in 1..Len(action_history) :
          action_history[i].step > ncalls.append - ACTION_HISTORY_LENGTH

\* after ACTION_HISTORY_LENGTH + 1 appends the window is full and starts at step 2
C3_Witness ==
    /\ ncalls.append = ACTION_HISTORY_LENGTH + 1
    /\ Len(action_history) = ACTION_HISTORY_LENGTH
    /\ action_history[1].step = 2

\* the summary check of the current step has run
Checked == pc \in {"execute", "append"}

\* C4: a step records the repetition warning if and only if its summary string
\* equals the summary string of the step before it; step 1 records none.
C4_WarningIffSameAsPrevious ==
    /\ Checked =>
          (warned <=> (/\ step >= 1
                       /\ action_history # <<>>
                       /\ action_history[Len(action_history)].step = step
                       /\ action_history[Len(action_history)].summary = current_action_summary))
    /\ step = 0 => ~warned

\* a warning was recorded at a step after the first
C4_Witness == Checked /\ warned /\ step >= 1

\* C5: when take_screenshot fails at step n the loop ends at once: step n makes
\* no vision call, no decision call, no execution and no history entry, and
\* nothing runs afterwards.
C5_ScreenshotFailureEndsLoop ==
    (ncalls.screenshot = current_step /\ ~shot) =>
        /\ pc = "finished"
        /\ outcome = "screenshot_failed"
        /\ ncalls.screenshot = current_step
        /\ ncalls.vision = current_step - 1
        /\ ncalls.llm = current_step - 1
        /\ ncalls.summarize = current_step - 1
        /\ ncalls.execute = current_step - 1
        /\ ncalls.append = current_step - 1
        /\ \A i \in 1..Len(action_history) : action_history[i].step < current_step
        /\ ~ENABLED Next

\* the screenshot of step 3 failed
C5_Witness == ~shot /\ pc = "finished" /\ current_step = 3 /\ Len(action_history) = 2

\* the decision call of the current step has returned
Decided == ncalls.llm = current_step

\* the response gave no action: an error, no action object, or one without a kind
NoAction(response) ==
    \/ response.kind = "error"
    \/ ~IsDict(Get(response.action))
    \/ IsNone(Get(response.action[2].action))
    \/ Get(response.action[2].action) = PyStr(<<>>)

\* C6: when the decision call of step n yields no action (transport error or
\* malformed response, or an action object without a kind) the loop ends in the
\* failure state: step n executes nothing and appends no history entry.
C6_DecisionFailureEndsLoop ==
    (Decided /\ NoAction(llm_args.response[2])) =>
        /\ pc = "finished"
        /\ outcome = "llm_failed"
        /\ ncalls.summarize = current_step - 1
        /\ ncalls.execute = current_step - 1
        /\ ncalls.append = current_step - 1
        /\ \A i \in 1..Len(action_history) : action_history[i].step < current_step
        /\ ~ENABLED Next

\* at step 2 the response held an action object without a kind
C6_Witness ==
    /\ Decided
    /\ current_step = 2
    /\ llm_args.response[2].kind = "json"
    /\ IsDict(llm_args.response[2].action)
    /\ IsAbsent(llm_args.response[2].action[2].action)
    /\ outcome = "llm_failed"

\* the vision call of the current step gave no elements
NoElements == ncalls.vision = current_step /\ ~Truthy(omni_elements)

\* C7: a vision call that fails or returns no elements neither ends the loop nor
\* skips the step: the decision call of that step is made, with the empty or
\* absent element set, and the action it decides is executed and recorded.
C7_VisionFailureTolerated ==
    [][/\ pc = "vision" => (pc' = "llm" /\ outcome' = "running")
       /\ (pc = "llm" /\ NoElements) =>
             /\ ncalls'.llm = ncalls.llm + 1
             /\ llm_args'.elements = omni_elements
             /\ IsDict(llm_action') => pc' = "loopcheck"
       /\ (pc = "loopcheck" /\ NoElements) => pc' = "execute"
       /\ (pc = "execute" /\ NoElements) => (pc' = "append" /\ ncalls'.execute = current_step)
       /\ (pc = "append" /\ NoElements) =>
             /\ ncalls'.append = current_step
             /\ action_history' # <<>>
             /\ action_history'[Len(action_history')].step = current_step
             /\ action_history'[Len(action_history')].action_data = llm_action
      ]_vars

\* the vision call failed and the step's action was executed and recorded
C7_Witness ==
    /\ IsNone(omni_elements)
    /\ ncalls.vision = 2
    /\ ncalls.llm = 2
    /\ IsNone(llm_args.elements)
    /\ ncalls.execute = 2
    /\ ncalls.append = 2

\* C8: with every collaborator call returning, every run reaches a terminal
\* state, after at most MAX_STEPS steps; and the loop ends as "maximum steps
\* reached" if and only if MAX_STEPS steps ran to their end and none signalled
\* stop or failed: a DONE decided at step MAX_STEPS ends as a stop.
C8_Safety ==
    /\ current_step <= MAX_STEPS
    /\ \A c \in DOMAIN ncalls : ncalls[c] <= MAX_STEPS
    /\ pc = "finished" =>
          /\ outcome \in {"max_steps", "stopped", "screenshot_failed", "llm_failed"}
          /\ outcome = "max_steps" <=> (ncalls.append = MAX_STEPS /\ should_continue)
          /\ ~ENABLED FairNext

C8_Terminates == <>(pc = "finished") /\ []C8_Safety

\* DONE was decided at step MAX_STEPS
C8_Witness ==
    /\ pc = "finished"
    /\ ncalls.append = MAX_STEPS
    /\ llm_action[2].action = DONE
    /\ outcome = "stopped"

\* C9: when DONE is decided at step n (the steps before it did not stop) the
\* loop ends after exactly n steps and step n is itself recorded: the history
\* holds min(n, ACTION_HISTORY_LENGTH) entries, the last one the DONE step.
C9_DoneStepRecorded ==
    (IsDict(llm_action) /\ llm_action[2].action = DONE
        /\ pc \in {"screenshot", "vision", "llm", "finished"}) =>
        /\ pc = "finished"
        /\ outcome = "stopped"
        /\ ncalls.screenshot = current_step
        /\ ncalls.execute = current_step
        /\ ncalls.append = current_step
        /\ Len(action_history) = Min(current_step, ACTION_HISTORY_LENGTH)
        /\ action_history[Len(action_history)].step = current_step
        /\ action_history[Len(action_history)].action_data[2].action = DONE
        /\ ~ENABLED Next

\* TAP on the element, then DONE: two steps, two entries
C9_Witness ==
    /\ pc = "finished"
    /\ outcome = "stopped"
    /\ current_step = 2
    /\ Len(action_history) = 2
    /\ action_history[1].action_data[2].action = TAP
    /\ action_history[2].action_data[2].action = DONE

\* C10: the repetition warning changes nothing: with the same WAIT action
\* decided at every step, every step executes it and appends its entry, every
\* step from the second on records the warning, and the loop ends as "maximum
\* steps reached" after MAX_STEPS steps.
C10_WarningDoesNotAlterControl ==
    (all_wait /\ outcome # "screenshot_failed") =>
        /\ Checked => (warned <=> step >= 1)
        /\ pc \in {"screenshot", "vision", "llm"} =>
              (ncalls.execute = step /\ ncalls.append = step)
        /\ pc = "append" => (should_continue /\ ncalls.execute = current_step)
        /\ pc = "finished" =>
              /\ outcome = "max_steps"
              /\ ncalls.execute = MAX_STEPS
              /\ ncalls.append = MAX_STEPS
              /\ Len(action_history) = ACTION_HISTORY_LENGTH

\* MAX_STEPS identical WAIT decisions, the last one warned about
C10_Witness ==
    /\ all_wait
    /\ pc = "finished"
    /\ outcome = "max_steps"
    /\ warned
    /\ ncalls.llm = MAX_STEPS

-----------------------------------------------------------------------------
(* Properties of one execute_action call                                   *)

\* execute_action has been called on the action in llm_action
Executed == ncalls.execute = 1

Act == llm_action[2]

\* position in the element list of the first element whose index equals the
\* action's element_index, 0 when there is none
Resolved ==
    LET es == ElementsOrEmpty(omni_elements)
        hits == {i \in 1..Len(es) : PyEq(GetD(es[i].index, None), Get(Act.element_index))}
    IN IF hits = {} THEN 0 ELSE CHOOSE i \in hits : \A j \in hits : i <= j

\* the bbox of the resolved element is a list of four numbers
ResolvedBox ==
    /\ Resolved # 0
    /\ LET bbox == GetD(ElementsOrEmpty(omni_elements)[Resolved].bbox, None)
       IN IsList(bbox) /\ Len(bbox[2]) = 4 /\ \A i \in 1..4 : bbox[2][i][1] \in {"int", "float"}

\* n is the integer part of num/den, for num >= 0 and den > 0
IntPart(n, num, den) == n * den <= num /\ num < (n + 1) * den

\* call c is a tap at the midpoint of the resolved element's bbox, in pixels
TapAtMidpoint(c) ==
    LET b == ElementsOrEmpty(omni_elements)[Resolved].bbox[2]
    IN  /\ c[1] = "tap" /\ Len(c) = 3
        /\ IntPart(c[2], (Tenths(b[1]) + Tenths(b[3])) * screen_dims[1], 20)
        /\ IntPart(c[3], (Tenths(b[2]) + Tenths(b[4])) * screen_dims[2], 20)

CallsOf(kind) == {i \in 1..Len(calls) : calls[i][1] = kind}

\* C11: an INPUT_TEXT with a text whose element_index resolves to an element
\* with a four-number bbox first taps the midpoint of that element and types
\* the text only after that tap (and does type it when the tap succeeded);
\* an INPUT_TEXT with a text and no element_index types the text with no tap.
C11_FocusTapBeforeTyping ==
    (Executed /\ PyEq(Get(Act.action), INPUT_TEXT) /\ ~IsNone(Get(Act.text))) =>
        /\ (~IsNone(Get(Act.element_index)) /\ ResolvedBox) =>
              /\ calls # <<>>
              /\ TapAtMidpoint(calls[1])
              /\ CallsOf("tap") = {1}
              /\ \A i \in CallsOf("input_text") :
                    i > 1 /\ calls[i] = <<"input_text", Act.text>>
              /\ results[1] = "ok" => CallsOf("input_text") # {}
        /\ IsNone(Get(Act.element_index)) =>
              /\ calls # <<>>
              /\ calls[1] = <<"input_text", Act.text>>
              /\ CallsOf("tap") = {}
              /\ Cardinality(CallsOf("input_text")) = 1

C11_Witness ==
    /\ Executed /\ PyEq(Get(Act.action), INPUT_TEXT)
    /\ Act.element_index = PyInt(1) /\ ResolvedBox
    /\ Len(calls) = 4
    /\ calls[1] = <<"tap", 300, 800>>
    /\ calls[3] = <<"input_text", PyStr(<<"h", "i">>)>>
    /\ screen_dims = <<1000, 2000>>

\* the device primitive that carries out an action of this kind
Primitive(kind) ==
    IF PyEq(kind, TAP) THEN "tap"
    ELSE IF PyEq(kind, INPUT_TEXT) THEN "input_text"
    ELSE IF PyEq(kind, SCROLL_DOWN) \/ PyEq(kind, SCROLL_UP) \/ PyEq(kind, SWIPE) THEN "swipe"
    ELSE "none"

\* the action's primitive was called and the device reported success
Succeeded == \E i \in CallsOf(Primitive(Get(Act.action))) : results[i] = "ok"

SettleWait == <<"wait", PyFloat(DEFAULT_WAIT_TIME)>>

\* C12: after a TAP, INPUT_TEXT, SCROLL_DOWN, SCROLL_UP or SWIPE whose device
\* primitive reported success, the settle wait of the configured default
\* duration is the last device call and the only wait; after anything else that
\* is not a WAIT no wait is issued at all; a WAIT issues exactly one call, a
\* wait of the action's duration_seconds, or of the default when it has none.
C12_SettleWaitOnlyAfterSuccess ==
    Executed =>
        /\ Succeeded =>
              /\ calls[Len(calls)] = SettleWait
              /\ CallsOf("wait") = {Len(calls)}
        /\ (~Succeeded /\ ~PyEq(Get(Act.action), WAIT)) => CallsOf("wait") = {}
        /\ PyEq(Get(Act.action), WAIT) =>
              calls = <<<<"wait", IF IsAbsent(Act.duration_seconds)
                                  THEN PyFloat(DEFAULT_WAIT_TIME)
                                  ELSE Act.duration_seconds>>>>

C12_Witness ==
    /\ Executed /\ PyEq(Get(Act.action), SCROLL_DOWN)
    /\ Len(calls) = 2 /\ results[1] = "ok" /\ calls[2] = SettleWait

\* C13: a TAP on an element with bbox [x0, y0, x1, y1] on a screen of
\* (width, height) issues its tap at the integer parts of ((x0+x1)/2)*width
\* and ((y0+y1)/2)*height; bbox [0.1, 0.2, 0.5, 0.6] on 1000x2000 gives (300, 800).
C13_TapAtBoxMidpoint ==
    (Executed /\ PyEq(Get(Act.action), TAP) /\ ResolvedBox) =>
        /\ calls # <<>>
        /\ TapAtMidpoint(calls[1])
        /\ CallsOf("tap") = {1}
        /\ (ElementsOrEmpty(omni_elements)[Resolved].bbox = Box /\ screen_dims = <<1000, 2000>>)
              => calls[1] = <<"tap", 300, 800>>

C13_Witness ==
    /\ Executed /\ PyEq(Get(Act.action), TAP) /\ ResolvedBox
    /\ ElementsOrEmpty(omni_elements)[Resolved].bbox = Box
    /\ screen_dims = <<719, 1283>>
    /\ calls[1] = <<"tap", 215, 513>>

\* call c is one swipe along the vertical line x = width div 2, from the
\* integer part of from/10 of the height to the integer part of to/10 of it
VerticalSwipe(c, from, to) ==
    /\ c[1] = "swipe" /\ Len(c) = 6
    /\ c[2] = screen_dims[1] \div 2 /\ c[4] = c[2]
    /\ IntPart(c[3], from * screen_dims[2], 10)
    /\ IntPart(c[5], to * screen_dims[2], 10)

\* C14: on every screen SCROLL_DOWN issues one swipe from (width div 2, 80%
\* of the height) to (width div 2, 20% of the height) and SCROLL_UP one swipe
\* from (width div 2, 20%) to (width div 2, 80%): the two are mirror images
\* on the same vertical line.
C14_ScrollsAreMirrored ==
    Executed =>
        /\ PyEq(Get(Act.action), SCROLL_DOWN) =>
              CallsOf("swipe") = {1} /\ VerticalSwipe(calls[1], 8, 2)
        /\ PyEq(Get(Act.action), SCROLL_UP) =>
              CallsOf("swipe") = {1} /\ VerticalSwipe(calls[1], 2, 8)

C14_Witness ==
    /\ Executed /\ PyEq(Get(Act.action), SCROLL_UP)
    /\ screen_dims = <<719, 1283>>
    /\ calls[1] = <<"swipe", 359, 256, 359, 1026, PyInt(SCROLL_DURATION_MS)>>

\* the action is a SWIPE whose four coordinates are all present numbers
FullSwipe ==
    /\ PyEq(Get(Act.action), SWIPE)
    /\ \A v \in {Act.start_x, Act.start_y, Act.end_x, Act.end_y} : v[1] \in {"int", "float"}

\* C15: for a SWIPE with all four coordinates the device swipe is issued with
\* the value of the action's "duration" key, and with the default of 300 ms
\* only when the action has no "duration" key; a "duration_ms" key is not read.
C15_SwipeDurationFromDurationKey ==
    (Executed /\ FullSwipe) =>
        /\ CallsOf("swipe") = {1}
        /\ calls[1][6] = IF IsAbsent(Act.duration) THEN PyInt(300) ELSE Act.duration

C15_Witness ==
    /\ Executed /\ FullSwipe
    /\ Act.duration = PyInt(1000) /\ Act.duration_ms = PyInt(250)
    /\ calls[1][6] = PyInt(1000)

\* C15 as stated: the swipe is issued with the action's duration_ms, and with
\* the default only when the action has no duration_ms.
C15_Original ==
    (Executed /\ FullSwipe) =>
        /\ CallsOf("swipe") = {1}
        /\ calls[1][6] = IF IsAbsent(Act.duration_ms) THEN PyInt(300) ELSE Act.duration_ms

\* C16: a SWIPE with all four coordinates present issues exactly one device
\* swipe whose ends are the integer parts of start_x and end_x times the width
\* and of start_y and end_y times the height; a coordinate of value 0 is
\* present; a SWIPE with a coordinate absent (or null) issues no device call
\* and returns continue = true.
C16_SwipeScalesCoordinates ==
    (Executed /\ PyEq(Get(Act.action), SWIPE)) =>
        /\ FullSwipe =>
              /\ CallsOf("swipe") = {1}
              /\ Len(calls[1]) = 6
              /\ IntPart(calls[1][2], Tenths(Act.start_x) * screen_dims[1], 10)
              /\ IntPart(calls[1][3], Tenths(Act.start_y) * screen_dims[2], 10)
              /\ IntPart(calls[1][4], Tenths(Act.end_x) * screen_dims[1], 10)
              /\ IntPart(calls[1][5], Tenths(Act.end_y) * screen_dims[2], 10)
        /\ (\E v \in {Act.start_x, Act.start_y, Act.end_x, Act.end_y} : IsNone(Get(v))) =>
              calls = <<>> /\ should_continue

C16_Witness ==
    /\ Executed /\ FullSwipe
    /\ Act.start_x = PyInt(0)
    /\ screen_dims = <<719, 1283>>
    /\ calls[1] = <<"swipe", 0, 641, 719, 641, PyInt(300)>>

C16_WitnessAbsent ==
    /\ Executed /\ PyEq(Get(Act.action), SWIPE)
    /\ IsAbsent(Act.start_y) /\ ~IsAbsent(Act.start_x)
    /\ calls = <<>> /\ should_continue

-----------------------------------------------------------------------------
(* Properties of one summarize_action call                                 *)

Summarized == ncalls.summarize = 1

\* formatting the summary raises: the text of an INPUT_TEXT cannot be sliced
FormattingRaises ==
    /\ PyEq(Get(Act.action), INPUT_TEXT)
    /\ ~IsAbsent(Act.text)
    /\ Act.text[1] \notin {"str", "list"}

\* C17: summarize_action returns a string for every action and element list
\* (no list, elements without content, an index with no match, a text that
\* is not a string): the raw dump of the action when formatting raises, and a
\* summary beginning with "Action: " otherwise.
C17_SummaryAlwaysAString ==
    Summarized =>
        /\ current_action_summary[1] = "str"
        /\ FormattingRaises => current_action_summary = PyStr(RawDump(Act))
        /\ ~FormattingRaises => current_action_summary[2][1] = "Action: "

C17_Witness ==
    /\ Summarized /\ FormattingRaises
    /\ Act.text = PyInt(7) /\ Act.element_index = PyInt(1)
    /\ omni_elements = None
    /\ current_action_summary =
          PyStr(<<"{", "action", "'", "INPUT_TEXT", "'", "element_index", "1", "text", "7", "}">>)

-----------------------------------------------------------------------------
(* Properties of the loop and of the setup                                 *)

\* the decision call of the current step returned an action object without a kind
KindlessDecision ==
    /\ Decided
    /\ llm_args.response[2].kind = "json"
    /\ IsDict(llm_args.response[2].action)
    /\ ~Truthy(Get(llm_args.response[2].action[2].action))

\* the executor ran in the current step and signalled stop
ExecutorStopped == ncalls.execute = current_step /\ ~should_continue /\ pc \in {"append", "finished"}

C18_WitnessKindless ==
    /\ KindlessDecision
    /\ pc = "finished" /\ outcome = "llm_failed"
    /\ current_step = 1

\* the API key is missing, the device connection cannot be set up, or the
\* screen dimensions cannot be obtained
Unusable == ~env.api_key \/ env.adb = "raise" \/ env.dims = None

\* C19: without API credentials, without a device connection or without
\* screen dimensions the program ends before the loop starts: no screenshot,
\* vision, decision, summary or execution call is ever made and no history
\* entry is ever appended.
C19_SetupFailureAbortsBeforeLoop ==
    Unusable =>
        /\ pc \in {"setup", "finished"}
        /\ ncalls = NoCalls
        /\ action_history = <<>>
        /\ calls = <<>>
        /\ pc = "finished" => (outcome \in {"no_api_key", "adb_failed", "no_dims"} /\ ~ENABLED SetupNext)

C19_Witness ==
    /\ env.api_key /\ env.adb = "ok" /\ env.dims = None /\ Truthy(env.task)
    /\ pc = "finished" /\ outcome = "no_dims"

-----------------------------------------------------------------------------
(* Properties of one step from the decision on                             *)

\* the action has a kind that is none of the seven the executor knows
UnknownKind ==
    LET kind == Get(Act.action)
    IN  /\ kind[1] = "str" /\ kind[2] # <<>>
        /\ kind \notin {TAP, INPUT_TEXT, SCROLL_DOWN, SCROLL_UP, SWIPE, WAIT, DONE}

\* the element the index resolves to has no bbox, or one that has not four components
BadBox ==
    /\ ~IsNone(Get(Act.element_index))
    /\ Resolved # 0
    /\ LET bbox == GetD(ElementsOrEmpty(omni_elements)[Resolved].bbox, None)
       IN bbox[1] # "list" \/ Len(bbox[2]) # 4

Malformed ==
    \/ UnknownKind
    \/ PyEq(Get(Act.action), INPUT_TEXT) /\ IsNone(Get(Act.text))
    \/ (PyEq(Get(Act.action), TAP) \/ PyEq(Get(Act.action), INPUT_TEXT)) /\ BadBox

\* C20: for an unknown kind, an INPUT_TEXT without text (whatever its
\* element_index), or a TAP or INPUT_TEXT whose resolved element has no
\* four-component bbox, execute_action issues no device call at all and
\* returns continue = true, and the loop appends the history entry of that
\* step and goes on to the next step.
C20_MalformedActionIsNoOp ==
    (Executed /\ Malformed) =>
        /\ calls = <<>>
        /\ should_continue
        /\ pc = "append" => ENABLED UpdateHistory
        /\ pc # "append" =>
              /\ pc = "screenshot"
              /\ outcome = "running"
              /\ step = 1
              /\ action_history = <<[step |-> 1, summary |-> current_action_summary,
                                     reasoning |-> llm_reasoning, action_data |-> llm_action]>>

C20_Witness ==
    /\ Executed /\ UnknownKind
    /\ pc = "screenshot" /\ step = 1
    /\ Len(action_history) = 1
    /\ action_history[1].action_data = llm_action

C20_WitnessNoText ==
    /\ Executed /\ PyEq(Get(Act.action), INPUT_TEXT) /\ IsNone(Get(Act.text))
    /\ ~IsNone(Get(Act.element_index)) /\ ResolvedBox
    /\ pc = "screenshot" /\ calls = <<>>

C20_WitnessBadBox ==
    /\ Executed /\ PyEq(Get(Act.action), INPUT_TEXT) /\ ~IsNone(Get(Act.text)) /\ BadBox
    /\ ElementsOrEmpty(omni_elements)[Resolved].bbox = ShortBox
    /\ pc = "screenshot" /\ calls = <<>>

-----------------------------------------------------------------------------
(* Properties of the loop: what each step works on                         *)

\* the annotated path main keeps from a vision result
PathOf(r) == IF r[2][1] = "str" /\ r[2][2] # <<>> THEN r[2] ELSE None

\* the vision call of the current step has returned
Analyzed == ncalls.vision = current_step

\* C21: the elements a step hands to the decision call, summarizes with and
\* executes on are exactly those its own vision call returned (none when that
\* call failed), and the annotated path it hands to the decision call is the
\* one its own vision call returned, or none; nothing is kept from an earlier step.
C21_ElementsAreOfThisStep ==
    /\ pc \in {"llm", "loopcheck", "execute", "append"} =>
          /\ Analyzed
          /\ omni_elements = vision_result[1]
          /\ last_annotated_screenshot_path = PathOf(vision_result)
    /\ Decided =>
          /\ Analyzed
          /\ llm_args.elements = vision_result[1]
          /\ llm_args.annotated = PathOf(vision_result)
    /\ (pc \in {"execute", "append"} /\ llm_action[2] = TAP1) =>
          LET es == IF vision_result[1][1] = "list" THEN vision_result[1][2] ELSE <<>>
              found == \E i \in 1..Len(es) : es[i].index = PyInt(1)
          IN  /\ found <=> current_action_summary[2][Len(current_action_summary[2])-1] # "'Element not found'"
              /\ ncalls.execute = current_step => (found <=> calls # <<>>)

\* step 2 saw no elements after step 1 saw one, and its TAP touched nothing
C21_Witness ==
    /\ current_step = 2 /\ pc = "append"
    /\ IsNone(vision_result[1]) /\ IsNone(omni_elements)
    /\ llm_args.annotated = None
    /\ llm_action[2] = TAP1 /\ calls = <<>>
    /\ action_history[1].action_data[2] = TAP1
    /\ action_history[1].summary # current_action_summary

-----------------------------------------------------------------------------
(* Properties of two consecutive summaries                                 *)

\* the second step has summarized its action
SecondSummarized == ncalls.summarize = 2 /\ action_history # <<>> /\ action_history[1].step = 1

\* the action of the first step
Prev == action_history[1].action_data[2]

\* two field values differ (an absent key reads as None)
Differ(v, w) ==
    LET a == Get(v)
        b == Get(w)
    IN a[1] # b[1] \/ (a[1] # "None" /\ a[2] # b[2])

\* the two actions differ in element_index, coordinates or duration
OtherTargetDiffers ==
    \/ Act.action \in {TAP, INPUT_TEXT} /\ Differ(Prev.element_index, Act.element_index)
    \/ Act.action = SWIPE /\ (\/ Differ(Prev.start_x, Act.start_x) \/ Differ(Prev.start_y, Act.start_y)
                             \/ Differ(Prev.end_x, Act.end_x) \/ Differ(Prev.end_y, Act.end_y))
    \/ Act.action = WAIT /\ Differ(Prev.duration_seconds, Act.duration_seconds)

Flagged == warned /\ action_history[1].summary = current_action_summary

\* the first 20 characters of a text
First20(text) == IF Len(text[2]) <= 20 THEN text[2] ELSE [i \in 1..20 |-> text[2][i]]

\* C22: two consecutive actions of the same kind get different summaries, and
\* the second is not flagged as a repetition, when they differ in
\* element_index (TAP, INPUT_TEXT), in a coordinate (SWIPE), in duration (WAIT)
\* or in the first 20 characters of the text (INPUT_TEXT); two INPUT_TEXT
\* actions with the same element_index whose texts differ only after the
\* 20th character get the same summary and the second is flagged.
C22_SummariesDistinguishTargets ==
    (SecondSummarized /\ Prev.action = Act.action) =>
        /\ OtherTargetDiffers => ~Flagged /\ ~warned
        /\ (Act.action = INPUT_TEXT /\ First20(Prev.text) # First20(Act.text))
              => ~Flagged /\ ~warned
        /\ (Act.action = INPUT_TEXT /\ First20(Prev.text) = First20(Act.text)
              /\ ~Differ(Prev.element_index, Act.element_index)) => Flagged

C22_Witness ==
    /\ SecondSummarized
    /\ Prev.action = INPUT_TEXT /\ Act.action = INPUT_TEXT
    /\ Prev.text = PyStr(<<"h", "i">>) /\ Act.text = PyStr(<<"h", "o">>)
    /\ Prev.element_index = PyInt(1) /\ Act.element_index = PyInt(1)
    /\ ~warned
    /\ pc = "screenshot"

\* C22 as stated: two actions of the same kind that differ in their target,
\* any difference of the texts of two INPUT_TEXT included, get different
\* summaries and the second is not flagged.
C22_Original ==
    (SecondSummarized /\ Prev.action = Act.action) =>
        /\ OtherTargetDiffers => ~Flagged /\ ~warned
        /\ (Act.action = INPUT_TEXT /\ Prev.text # Act.text) => ~Flagged /\ ~warned

-----------------------------------------------------------------------------
(* Properties of the order of the calls                                    *)

\* the stages of a step in the order of main.py:59-113
Stages == <<"screenshot", "vision", "llm", "summarize", "execute", "append">>

\* stage k is called in this transition
Called(k) == ncalls'[Stages[k]] = ncalls[Stages[k]] + 1

C23_OrderedCounts ==
    /\ \A k \in 1..6 : ncalls[Stages[k]] \in {current_step - 1, current_step}
    /\ \A k \in 1..5 : ncalls[Stages[k]] >= ncalls[Stages[k + 1]]

C23_OrderedSteps ==
    /\ \A k \in 1..6 : ncalls'[Stages[k]] \in {ncalls[Stages[k]], ncalls[Stages[k]] + 1}
    /\ \A k \in 1..6 : \A l \in 1..6 : (Called(k) /\ Called(l)) => k = l
    /\ Called(1) => (pc # "finished" /\ \A k \in 1..6 : ncalls[Stages[k]] = ncalls.screenshot)
    /\ \A k \in 2..6 :
          Called(k) => (/\ pc # "finished"
                        /\ ncalls[Stages[k]] = current_step - 1
                        /\ \A l \in 1..(k - 1) : ncalls[Stages[l]] = current_step)
    /\ (calls' # calls \/ results' # results) => Called(5)
    /\ pc = "finished" => (ncalls' = ncalls /\ calls' = calls)

\* C23: in every step the calls are made in the order screenshot, vision,
\* decision, summary, execution, history append, each at most once; the
\* screenshot of the next step is taken only after the append of this one;
\* device calls are made by the execution only; and once the loop is over no
\* call is made any more.
C23_CallsInOrder == []C23_OrderedCounts /\ [][C23_OrderedSteps]_vars

\* the screenshot of step 2 was taken after step 1 was appended
C23_Witness ==
    /\ ncalls.screenshot = 2 /\ pc = "vision"
    /\ ncalls.append = 1 /\ ncalls.execute = 1 /\ ncalls.summarize = 1
    /\ ncalls.llm = 1 /\ ncalls.vision = 1

-----------------------------------------------------------------------------
(* Properties of one step from the decision on: the focus tap              *)

\* the action is an INPUT_TEXT with a text whose element_index resolves to an
\* element with a four-number bbox, and the device did not carry out the focus tap
FocusTapFailed ==
    /\ Executed
    /\ PyEq(Get(Act.action), INPUT_TEXT) /\ ~IsNone(Get(Act.text))
    /\ ~IsNone(Get(Act.element_index)) /\ ResolvedBox
    /\ results # <<>> /\ results[1] # "ok"

\* C24: when the focus tap of an INPUT_TEXT with element_index fails, the tap
\* is the only device call of the step (no input_text, no settle wait),
\* execute_action returns continue = true, and the loop appends the step and
\* goes on to the next one.
C24_FailedFocusTapSkipsTyping ==
    FocusTapFailed =>
        /\ Len(calls) = 1 /\ TapAtMidpoint(calls[1])
        /\ CallsOf("input_text") = {} /\ CallsOf("wait") = {}
        /\ should_continue
        /\ pc = "append" => ENABLED UpdateHistory
        /\ pc # "append" =>
              /\ pc = "screenshot" /\ outcome = "running" /\ step = 1
              /\ Len(action_history) = 1 /\ action_history[1].action_data = llm_action

C24_Witness ==
    /\ FocusTapFailed
    /\ results = <<"fail">>
    /\ calls = <<<<"tap", 300, 800>>>>
    /\ pc = "screenshot" /\ step = 1

-----------------------------------------------------------------------------
(* Properties of the loop: the history window                              *)

\* the number of steps that have reached the append of main.py:111
Appended == ncalls.append

Smaller(a, b) == IF a <= b THEN a ELSE b

\* the loop ended in this step before its append: screenshot or decision failure
EndedBeforeAppend == pc = "finished" /\ outcome \in {"screenshot_failed", "llm_failed"}

\* C25: after m steps have reached the append, the history holds exactly
\* min(m, ACTION_HISTORY_LENGTH) entries, whose step numbers are the
\* consecutive 1-based values m - min(m, K) + 1 .. m in increasing order; a
\* step that ended on a screenshot or decision failure has no entry; the loop
\* starts with the empty history.
C25_HistoryIsLastKSteps ==
    LET m == Appended
        k == Smaller(m, ACTION_HISTORY_LENGTH)
    IN /\ Len(action_history) = k
       /\ \A i \in 1..k : action_history[i].step = m - k + i
       /\ EndedBeforeAppend =>
             /\ m = step
             /\ \A i \in 1..k : action_history[i].step # current_step
       /\ (ncalls.screenshot = 0 \/ m = 0) => action_history = <<>>

\* seven steps were appended, then the eighth ended on a decision failure
C25_Witness ==
    /\ EndedBeforeAppend /\ outcome = "llm_failed"
    /\ Appended = ACTION_HISTORY_LENGTH + 2
    /\ Len(action_history) = ACTION_HISTORY_LENGTH
    /\ action_history[1].step = 3
    /\ action_history[ACTION_HISTORY_LENGTH].step = ACTION_HISTORY_LENGTH + 2

-----------------------------------------------------------------------------
(* Properties of the loop: the history the decision sees                   *)

\* the history described to the decision collaborator in the current step
Seen == llm_args.history

\* the entries of h are those of the last min(n - 1, K) steps before step n,
\* oldest first
LastStepsBefore(h, n) ==
    LET k == Smaller(n - 1, ACTION_HISTORY_LENGTH)
    IN /\ Len(h) = k
       /\ \A i \in 1..k : h[i].step = n - 1 - k + i

C26_SeenHistory ==
    Decided =>
        /\ LastStepsBefore(Seen, current_step)
        /\ \A i \in 1..Len(Seen) : Seen[i].step # current_step
        /\ current_step = 1 => Seen = <<>>
        /\ pc \in {"loopcheck", "execute", "append"} => Seen = action_history

\* the append of a step adds the entry of that step's decision to what the
\* decision saw and drops the oldest entry of a full window
C26_AppendAfterDecision ==
    ncalls'.append = ncalls.append + 1 =>
        LET new == action_history'[Len(action_history')]
            old == IF Len(Seen) < ACTION_HISTORY_LENGTH THEN Seen
                   ELSE [i \in 1..(ACTION_HISTORY_LENGTH - 1) |-> Seen[i + 1]]
        IN /\ Decided
           /\ action_history' = Append(old, new)
           /\ new.step = current_step
           /\ new.action_data = llm_action
           /\ new.summary = current_action_summary

\* C26: the history passed to the decision collaborator at step n holds
\* exactly the entries of the last min(n - 1, ACTION_HISTORY_LENGTH)
\* preceding steps, oldest to newest, and never an entry of step n itself
\* (it is empty at step 1); the entry of step n is appended after the
\* decision of step n.
C26_DecisionSeesPrecedingSteps == []C26_SeenHistory /\ [][C26_AppendAfterDecision]_vars

\* the decision of step 7 saw the entries of steps 2 to 6
C26_Witness ==
    /\ Decided /\ pc = "loopcheck"
    /\ current_step = ACTION_HISTORY_LENGTH + 2
    /\ Len(Seen) = ACTION_HISTORY_LENGTH
    /\ Seen[1].step = 2 /\ Seen[ACTION_HISTORY_LENGTH].step = ACTION_HISTORY_LENGTH + 1

-----------------------------------------------------------------------------
(* Properties of one step from the decision on: one element for summary    *)
(* and execution                                                           *)

\* the part of a TAP summary between ", Content: " and the closing bracket
ContentPart ==
    LET s == current_action_summary[2]
        p == CHOOSE i \in 1..Len(s) : s[i] = ", Content: "
    IN [i \in 1..(Len(s) - p - 1) |-> s[p + i]]

\* how the summary shows the content of element e: str(e.get('content', 'N/A')),
\* for the short unpadded contents of the element lists, in quotes
ContentShown(e) ==
    <<"'">> \o (CASE IsAbsent(e.content) -> <<"N/A">>
                  [] IsNone(e.content) -> <<"None">>
                  [] e.content = PyInt(5) -> <<"5">>
                  [] IsStr(e.content) -> e.content[2]) \o <<"'">>

NotFoundShown == ContentPart = <<"'Element not found'">>

\* C27: the summary and the execution of a TAP resolve element_index to the
\* same element, the first of the list with that index also when several
\* have it: the summary shows that element's content and the tap goes to
\* that element's bbox; the summary shows 'Element not found' exactly when
\* no element has the index, and then no tap is issued.
C27_SummaryAndTapSameElement ==
    (Executed /\ PyEq(Get(Act.action), TAP)) =>
        /\ NotFoundShown <=> Resolved = 0
        /\ NotFoundShown => (calls = <<>> /\ should_continue)
        /\ ~NotFoundShown =>
              /\ ContentPart = ContentShown(ElementsOrEmpty(omni_elements)[Resolved])
              /\ IF ResolvedBox
                 THEN calls # <<>> /\ TapAtMidpoint(calls[1]) /\ CallsOf("tap") = {1}
                 ELSE calls = <<>>
              /\ \A j \in 1..(Resolved - 1) :
                    ~PyEq(ElementsOrEmpty(omni_elements)[j].index, Get(Act.element_index))

\* two elements with index 1: Submit in Box comes first, Cancel covers the screen
C27_Witness ==
    /\ Executed /\ PyEq(Get(Act.action), TAP)
    /\ omni_elements = PyList(<<Element(1, Submit, Box), Element(1, Cancel, FullScreen)>>)
    /\ Act.element_index = PyInt(1)
    /\ ContentPart = <<"'">> \o Submit[2] \o <<"'">>
    /\ screen_dims = <<1000, 2000>>
    /\ calls[1] = <<"tap", 300, 800>>

\* no element has index 0: the summary says so and nothing is tapped
C27_WitnessNotFound ==
    /\ Executed /\ PyEq(Get(Act.action), TAP)
    /\ omni_elements = PyList(<<Element(1, Submit, Box), Element(1, Cancel, FullScreen)>>)
    /\ Act.element_index = PyInt(0)
    /\ NotFoundShown
    /\ calls = <<>>

-----------------------------------------------------------------------------
(* Properties of one step from the decision on: pixels and the screen      *)

\* the action taps an element: TAP, or INPUT_TEXT with its focus tap
Tapped ==
    /\ Executed
    /\ Get(Act.action) \in {TAP, INPUT_TEXT}
    /\ ResolvedBox
    /\ calls # <<>> /\ calls[1][1] = "tap"

\* the bbox of the tapped element, in tenths
TappedBox == [i \in 1..4 |-> Tenths(ElementsOrEmpty(omni_elements)[Resolved].bbox[2][i])]

\* the components of the tapped bbox lie in [0, 1], minima before maxima
Normalized ==
    /\ \A i \in 1..4 : 0 <= TappedBox[i] /\ TappedBox[i] <= Den
    /\ TappedBox[1] <= TappedBox[3] /\ TappedBox[2] <= TappedBox[4]

Scrolled == Executed /\ Get(Act.action) \in {SCROLL_DOWN, SCROLL_UP}

\* every endpoint of every swipe issued lies on the screen
SwipesOnScreen ==
    \A i \in CallsOf("swipe") :
        /\ 0 <= calls[i][2] /\ calls[i][2] < screen_dims[1]
        /\ 0 <= calls[i][4] /\ calls[i][4] < screen_dims[1]
        /\ 0 <= calls[i][3] /\ calls[i][3] < screen_dims[2]
        /\ 0 <= calls[i][5] /\ calls[i][5] < screen_dims[2]

\* C28: for an element bbox with components in [0, 1] and x_min <= x_max,
\* y_min <= y_max, the point of a TAP or of an INPUT_TEXT focus tap satisfies
\* 0 <= px <= width and 0 <= py <= height, with px = width only when
\* x_min = x_max = 1 and py = height only when y_min = y_max = 1; the point
\* is the integer part of the scaled midpoint, at most the scaled maximum and
\* less than one pixel below the scaled minimum of the bbox. The endpoints of
\* the SCROLL_DOWN and SCROLL_UP swipes satisfy 0 <= x < width and
\* 0 <= y < height for every width, height >= 1.
C28_TapPointWithinScaledBox ==
    /\ (Tapped /\ Normalized) =>
          LET px == calls[1][2]
              py == calls[1][3]
              width == screen_dims[1]
              height == screen_dims[2]
          IN /\ 0 <= px /\ px <= width /\ 0 <= py /\ py <= height
             /\ px = width <=> (TappedBox[1] = Den /\ TappedBox[3] = Den)
             /\ py = height <=> (TappedBox[2] = Den /\ TappedBox[4] = Den)
             /\ Den * px <= TappedBox[3] * width /\ TappedBox[1] * width < Den * (px + 1)
             /\ Den * py <= TappedBox[4] * height /\ TappedBox[2] * height < Den * (py + 1)
    /\ Scrolled => (CallsOf("swipe") # {} /\ SwipesOnScreen)

\* the element of no extent on the right edge is tapped at x = width
C28_Witness ==
    /\ Tapped /\ Normalized
    /\ ElementsOrEmpty(omni_elements)[Resolved].bbox = EdgeBox
    /\ screen_dims = <<1000, 2000>>
    /\ calls[1] = <<"tap", 1000, 1000>>

\* a scroll on the smallest screen
C28_WitnessScroll ==
    /\ Scrolled /\ screen_dims = <<1, 1>>
    /\ calls # <<>> /\ calls[1][1] = "swipe"
    /\ <<calls[1][2], calls[1][3], calls[1][4], calls[1][5]>> = <<0, 0, 0, 0>>

\* the statement with the tap point on the screen and inside the scaled bbox
C28_Original ==
    /\ (Tapped /\ Normalized) =>
          LET px == calls[1][2]
              py == calls[1][3]
              width == screen_dims[1]
              height == screen_dims[2]
          IN /\ 0 <= px /\ px < width /\ 0 <= py /\ py < height
             /\ TappedBox[1] * width <= Den * px /\ Den * px <= TappedBox[3] * width
             /\ TappedBox[2] * height <= Den * py /\ Den * py <= TappedBox[4] * height
    /\ Scrolled => SwipesOnScreen

====
